---- MODULE Spec2Model ----
(***************************************************************************)
(* State-machine model of the flappy-bird game loop (src/src/main.rs).     *)
(*                                                                         *)
(* Fixed-point units (every f32 of the source is an exact multiple of the  *)
(* unit on the grid of elapsed times the model draws from):                *)
(*   time       1/10 s          delta = 1 is time.delta_seconds() = 0.1    *)
(*   velocity   1/10 unit/s     JUMP_VELOCITY = 2000 is 200.               *)
(*   position   1/100 unit      y = 12800 is translation.y = 128.          *)
(*   gravity    (1/10 unit/s) per 1/10 s, so GRAVITY keeps the value -982  *)
(*   t          1/100           animation.t = 1. is t = 100                *)
(* position += velocity * delta and velocity += GRAVITY * delta are then   *)
(* exact integer operations.                                               *)
(*                                                                         *)
(* One frame of the engine is: frame_begin (input sampling, event buffer   *)
(* rotation, state transition with OnEnter(MainMenu) = create_world), then *)
(* every Update system whose run condition holds, each exactly once, in an *)
(* order the registration in main() leaves open, then propagate_transforms *)
(* (PostUpdate: GlobalTransform := parent * Transform).                    *)
(***************************************************************************)
EXTENDS Integers, Sequences, FiniteSets, TLC

VARIABLES
    state,          \* State<AppState>
    next_state,     \* NextState<AppState>: "None" or the state set by state.set
    roots,          \* the Root entities with their descendants, in spawn order
    pressed,        \* ButtonInput<MouseButton>::pressed(Left)
    just_pressed,   \* ButtonInput<MouseButton>::just_pressed(Left)
    ev_old,         \* OnJumped events of the previous frame not yet read
    ev_new,         \* OnJumped events of this frame not yet read
    delta,          \* time.delta_seconds() of the current frame
    phase,          \* "update": Update systems run; "idle": between frames
    ran,            \* the Update systems that have run in this frame
    fatal,          \* a system panicked (single_mut without exactly one match)
    frames,         \* number of frames begun
    prev_state,     \* observer: State<AppState> of the previous frame
    edge_state,     \* observer: state of the edge frame of the press being
                    \*   held, "None" while the button is up
    jumps,          \* observer: impulses assigned during the press being held
    sent,           \* observer: OnJumped events sent during the press being held
    triggered       \* observer: events trigger_jump_animation read this frame

vars == <<state, next_state, roots, pressed, just_pressed, ev_old, ev_new,
          delta, phase, ran, fatal, frames, prev_state, edge_state, jumps,
          sent, triggered>>

-----------------------------------------------------------------------------
(* Bounds of the model *)

\* frames per behaviour
MaxFrames == 4

\* elapsed times a frame may have, in 1/10 s
DTs == {1, 46}

\* gap offsets rng.gen_range(48..=154) may draw, in units
Heights == {48, 154}

-----------------------------------------------------------------------------
(* Constants of the program *)

PIPE_SPACE == 42 * 100
PIPE_TO_PIPE_SPACE == 160 * 100
PIPE_WIDTH == 26 * 100
SCROLL_SPEED == -100 * 10
TERMINAL_VELOCITY == -400 * 10
JUMP_VELOCITY == 200 * 10
GRAVITY == -982

\* Atlas::Bird3, Bird2, Bird1 with duration 0.2 each
bird_frames ==
    << [index |-> 3, duration |-> 2],
       [index |-> 2, duration |-> 2],
       [index |-> 1, duration |-> 2] >>

\* Collider half sizes
PlayerHalf == <<6 * 100, 4 * 100>>
PipeHalf == <<PIPE_WIDTH \div 2, 80 * 100>>

\* local translation of the two Pipe children of an Obstacle
PipeLocal == << <<0, 0>>, <<0, 0 - 160 * 100 - PIPE_SPACE>> >>

\* vertical bounds of crash_and_die
KillBound == 128 * 100

\* x below which a background wraps, and the wrap
BackgroundWrap == 143 * 100

\* x below which an obstacle is recycled
PipeWrap == 144 * 100 * 2

States == {"MainMenu", "Playing", "GameOver"}

-----------------------------------------------------------------------------
(* Pure functions *)

Max(a, b) == IF a >= b THEN a ELSE b

\* random_pipe_height: the set of values one call can return
random_pipe_height == {h * 100 : h \in Heights}

\* create_world, the entities spawned under the new Root; offsets[i] is the
\* i-th call of random_pipe_height. A GlobalTransform is the identity until
\* the first propagation.
NewRoot(offsets) ==
    [ y        |-> 0,
      velocity |-> 0,
      t        |-> 0,
      repeat   |-> FALSE,
      frame    |-> 2,
      index    |-> 1,
      bg       |-> 0,
      bg_child |-> 143 * 100,
      obs      |-> [i \in 1..4 |->
                     [ x     |-> (i - 1) * PIPE_TO_PIPE_SPACE + 144 * 100,
                       y     |-> offsets[i],
                       pipes |-> << <<0, 0>>, <<0, 0>> >> ]] ]

DespawnRootsNone(rs) == rs

\* create_world, lines 110-112: every Root is despawned with its descendants
DespawnRoots(rs) == << >>

CreateWorldDespawnLast(rs, offsets) == DespawnRoots(Append(rs, NewRoot(offsets)))

\* create_world
create_world(rs, offsets) == Append(DespawnRoots(rs), NewRoot(offsets))

RECURSIVE AnimLoopWrap(_, _)
AnimLoopWrap(a, d) ==
    LET fr        == bird_frames[a.frame + 1]
        remaining == ((100 - a.t) * fr.duration) \div 100
        finished  == a.frame + 1 >= Len(bird_frames)
    IN  IF d < remaining
        THEN [a EXCEPT !.t = a.t + (d * 100) \div fr.duration]
        ELSE IF finished
             THEN AnimLoopWrap([a EXCEPT !.frame = 0, !.t = 0], d - remaining)
        ELSE AnimLoopWrap([a EXCEPT !.frame = a.frame + 1, !.t = 0], d - remaining)

\* the elapsed-time loop of update_animation for one Animation
RECURSIVE AnimLoop(_, _)
AnimLoop(a, d) ==
    LET fr        == bird_frames[a.frame + 1]
        remaining == ((100 - a.t) * fr.duration) \div 100
        finished  == a.frame + 1 >= Len(bird_frames)
    IN  IF d < remaining
        THEN [a EXCEPT !.t = a.t + (d * 100) \div fr.duration]
        ELSE IF finished /\ a.repeat
             THEN AnimLoop([a EXCEPT !.frame = 0, !.t = 0], d - remaining)
        ELSE IF finished
             THEN [a EXCEPT !.frame = Len(bird_frames) - 1, !.t = 100]
        ELSE AnimLoop([a EXCEPT !.frame = a.frame + 1, !.t = 0], d - remaining)

\* update_animation: how many times the loop leaves a frame (delta -= remaining)
\* in one step
RECURSIVE AnimAdvances(_, _)
AnimAdvances(a, d) ==
    LET fr        == bird_frames[a.frame + 1]
        remaining == ((100 - a.t) * fr.duration) \div 100
        finished  == a.frame + 1 >= Len(bird_frames)
    IN  IF d < remaining
        THEN 0
        ELSE IF finished /\ a.repeat
             THEN 1 + AnimAdvances([a EXCEPT !.frame = 0, !.t = 0], d - remaining)
        ELSE IF finished
             THEN 1
        ELSE 1 + AnimAdvances([a EXCEPT !.frame = a.frame + 1, !.t = 0], d - remaining)

AnimStepNoCarry(r, d) ==
    LET fr        == bird_frames[r.frame + 1]
        remaining == ((100 - r.t) * fr.duration) \div 100
        a         == IF d < remaining THEN AnimLoop(r, d)
                     ELSE AnimLoop(r, remaining)
    IN  [a EXCEPT !.index = bird_frames[a.frame + 1].index]

\* update_animation on one player
AnimStep(r, d) ==
    LET a == AnimLoop(r, d)
    IN  [a EXCEPT !.index = bird_frames[a.frame + 1].index]

GravityStepUnclamped(r, d) ==
    LET v == r.velocity + GRAVITY * d
    IN  [r EXCEPT !.velocity = v, !.y = r.y + v * d]

\* apply_gravity on one player
GravityStep(r, d) ==
    LET v == Max(r.velocity + GRAVITY * d, TERMINAL_VELOCITY)
    IN  [r EXCEPT !.velocity = v, !.y = r.y + v * d]

BackgroundStepReset(x, d) ==
    LET nx == x + d * SCROLL_SPEED
    IN  IF nx < 0 - BackgroundWrap THEN 0 ELSE nx

\* scroll_backgrounds on one Background
BackgroundStep(x, d) ==
    LET nx == x + d * SCROLL_SPEED
    IN  IF nx < 0 - BackgroundWrap THEN nx + BackgroundWrap ELSE nx

\* scroll_pipes: whether the obstacle is recycled in this tick
Recycled(o, d) == o.x + d * SCROLL_SPEED < 0 - PipeWrap

PipeStepShortRing(o, d, h) ==
    LET nx == o.x + d * SCROLL_SPEED
    IN  IF nx < 0 - PipeWrap
        THEN [o EXCEPT !.x = nx + PIPE_TO_PIPE_SPACE * 3, !.y = h]
        ELSE [o EXCEPT !.x = nx]

PipeStepInclusive(o, d, h) ==
    LET nx == o.x + d * SCROLL_SPEED
    IN  IF nx <= 0 - PipeWrap
        THEN [o EXCEPT !.x = nx + PIPE_TO_PIPE_SPACE * 4, !.y = h]
        ELSE [o EXCEPT !.x = nx]

\* scroll_pipes on one Obstacle; h is the value random_pipe_height returns
\* if it is called
PipeStep(o, d, h) ==
    LET nx == o.x + d * SCROLL_SPEED
    IN  IF nx < 0 - PipeWrap
        THEN [o EXCEPT !.x = nx + PIPE_TO_PIPE_SPACE * 4, !.y = h]
        ELSE [o EXCEPT !.x = nx]

\* Aabb2d::new(center, half_size)
Aabb(center, half) ==
    [ min |-> <<center[1] - half[1], center[2] - half[2]>>,
      max |-> <<center[1] + half[1], center[2] + half[2]>> ]

\* offset_aabb
offset_aabb(half, translation) == Aabb(translation, half)

\* Aabb2d::intersects
Intersects(a, b) ==
    /\ a.min[1] <= b.max[1] /\ a.max[1] >= b.min[1]
    /\ a.min[2] <= b.max[2] /\ a.max[2] >= b.min[2]

OutOfBoundsBox(r) == r.y - PlayerHalf[2] < 0 - KillBound \/ r.y + PlayerHalf[2] > KillBound

\* crash_and_die, line 378
OutOfBounds(r) == r.y < 0 - KillBound \/ r.y > KillBound

\* crash_and_die, lines 384-391
HitsPipe(r) ==
    LET player == offset_aabb(PlayerHalf, <<0, r.y>>)
    IN  \E i \in 1..4, p \in 1..2 :
            Intersects(offset_aabb(PipeHalf, r.obs[i].pipes[p]), player)

Killed(r) == OutOfBounds(r) \/ HitsPipe(r)

\* transform propagation: the GlobalTransform of a Pipe is its Obstacle's
\* translation plus its own local translation
Propagate(r) ==
    [r EXCEPT !.obs = [i \in 1..4 |->
        [r.obs[i] EXCEPT !.pipes = [p \in 1..2 |->
            << r.obs[i].x + PipeLocal[p][1], r.obs[i].y + PipeLocal[p][2] >>]]]]

ScheduledUngatedPhysics(s) ==
    CASE s = "MainMenu" -> {"start_game", "apply_gravity", "update_animation"}
      [] s = "GameOver" -> {"restart_game", "apply_gravity", "update_animation"}
      [] s = "Playing"  -> {"apply_gravity", "update_animation", "input",
                            "trigger_jump_animation", "scroll_backgrounds",
                            "scroll_pipes", "crash_and_die", "apply_rotation"}

\* the Update systems the run conditions of main() let run in a state
Scheduled(s) ==
    CASE s = "MainMenu" -> {"start_game"}
      [] s = "GameOver" -> {"restart_game", "apply_gravity", "update_animation"}
      [] s = "Playing"  -> {"apply_gravity", "update_animation", "input",
                            "trigger_jump_animation", "scroll_backgrounds",
                            "scroll_pipes", "crash_and_die", "apply_rotation"}

\* Query::single_mut finds exactly one player
Single == Len(roots) = 1

-----------------------------------------------------------------------------
(* The state machine *)

JustPressedLevel(down, was) == down

\* ButtonInput::just_pressed after the frame's button events: the button is
\* down now (down) and was not down in the previous frame (was)
JustPressed(down, was) == down /\ ~was

EventUpdateDropAll(old, new) == 0

\* Events<OnJumped> registered by add_event: at the start of a frame the
\* events of the previous frame move to the older buffer, whose events are
\* dropped
EventUpdate(old, new) == new

\* the states the systems hand to NextState::set
StartTarget == "Playing"
RestartTargetInPlace == "Playing"
RestartTarget == "MainMenu"
CrashTargetMainMenu == "MainMenu"

CrashTarget == "GameOver"

\* The first frame: Startup has run and OnEnter(MainMenu) has built the world.
\* The button may already be down.
Init ==
    /\ state = "MainMenu"
    /\ next_state = "None"
    /\ \E offsets \in [1..4 -> random_pipe_height] :
           roots = create_world(<< >>, offsets)
    /\ pressed \in BOOLEAN
    /\ just_pressed = JustPressed(pressed, FALSE)
    /\ ev_old = 0
    /\ ev_new = 0
    /\ delta = 0
    /\ phase = "update"
    /\ ran = {}
    /\ fatal = FALSE
    /\ frames = 1
    /\ prev_state = "MainMenu"
    /\ edge_state = IF pressed THEN "MainMenu" ELSE "None"
    /\ jumps = 0
    /\ sent = 0
    /\ triggered = 0

Runs(s) ==
    /\ phase = "update"
    /\ ~fatal
    /\ s \in Scheduled(state)
    /\ s \notin ran
    /\ ran' = ran \cup {s}

\* Query::single_mut panics
Panic ==
    /\ fatal' = TRUE
    /\ UNCHANGED <<state, next_state, roots, pressed, just_pressed, ev_old,
                   ev_new, delta, phase, frames, prev_state, edge_state,
                   jumps, sent, triggered>>

\* The frame starts: the mouse button is sampled (down is its level, one of
\* Downs), the event buffers rotate, a pending state transition is applied and
\* OnEnter(MainMenu) runs create_world; n is the new count of frames.
FrameStart(Downs, n) ==
    /\ phase = "idle"
    /\ ~fatal
    /\ \E d \in DTs, down \in Downs :
        /\ delta' = d
        /\ pressed' = down
        /\ just_pressed' = JustPressed(down, pressed)
        /\ edge_state' = IF ~down THEN "None"
                         ELSE IF ~pressed
                              THEN (IF next_state # "None" THEN next_state
                                                           ELSE state)
                         ELSE edge_state
        /\ jumps' = IF down /\ pressed THEN jumps ELSE 0
        /\ sent' = IF down /\ pressed THEN sent ELSE 0
    /\ ev_old' = EventUpdate(ev_old, ev_new)
    /\ ev_new' = 0
    /\ IF next_state # "None"
       THEN /\ state' = next_state
            /\ next_state' = "None"
            /\ IF next_state = "MainMenu"
               THEN \E offsets \in [1..4 -> random_pipe_height] :
                        roots' = create_world(roots, offsets)
               ELSE roots' = roots
       ELSE UNCHANGED <<state, next_state, roots>>
    /\ phase' = "update"
    /\ ran' = {}
    /\ frames' = n
    /\ prev_state' = state
    /\ triggered' = 0
    /\ UNCHANGED fatal

\* a frame of a run of at most MaxFrames frames; the button is up or down
frame_begin ==
    /\ frames < MaxFrames
    /\ FrameStart(BOOLEAN, frames + 1)

start_game ==
    /\ Runs("start_game")
    /\ IF ~Single THEN Panic
       ELSE /\ IF just_pressed
               THEN /\ next_state' = StartTarget
                    /\ roots' = [roots EXCEPT ![1].velocity = JUMP_VELOCITY]
                    /\ ev_new' = ev_new + 1
                    /\ jumps' = jumps + 1
                    /\ sent' = sent + 1
               ELSE UNCHANGED <<next_state, roots, ev_new, jumps, sent>>
            /\ UNCHANGED <<state, pressed, just_pressed, ev_old, delta, phase,
                           fatal, frames, prev_state, edge_state, triggered>>

restart_game ==
    /\ Runs("restart_game")
    /\ IF just_pressed
       THEN next_state' = RestartTarget
       ELSE UNCHANGED next_state
    /\ UNCHANGED <<state, roots, pressed, just_pressed, ev_old, ev_new, delta,
                   phase, fatal, frames, prev_state, edge_state, jumps, sent,
                   triggered>>

input ==
    /\ Runs("input")
    /\ IF ~Single THEN Panic
       ELSE /\ IF just_pressed
               THEN /\ roots' = [roots EXCEPT ![1].velocity = JUMP_VELOCITY]
                    /\ ev_new' = ev_new + 1
                    /\ jumps' = jumps + 1
                    /\ sent' = sent + 1
               ELSE UNCHANGED <<roots, ev_new, jumps, sent>>
            /\ UNCHANGED <<state, next_state, pressed, just_pressed, ev_old,
                           delta, phase, fatal, frames, prev_state, edge_state,
                           triggered>>

apply_gravity ==
    /\ Runs("apply_gravity")
    /\ roots' = [i \in DOMAIN roots |-> GravityStep(roots[i], delta)]
    /\ UNCHANGED <<state, next_state, pressed, just_pressed, ev_old, ev_new,
                   delta, phase, fatal, frames, prev_state, edge_state, jumps,
                   sent, triggered>>

\* apply_rotation reads the velocity and writes transform.rotation only; no
\* system but apply_rotation reads the rotation, and create_world resets it.
\* The model keeps the system's place in the schedule and its access to the
\* player singleton, and does not carry the angle.
apply_rotation ==
    /\ Runs("apply_rotation")
    /\ IF ~Single THEN Panic
       ELSE UNCHANGED <<state, next_state, roots, pressed, just_pressed,
                        ev_old, ev_new, delta, phase, fatal, frames,
                        prev_state, edge_state, jumps, sent, triggered>>

trigger_jump_animation ==
    /\ Runs("trigger_jump_animation")
    /\ IF ~Single THEN Panic
       ELSE /\ IF ev_old + ev_new > 0
               THEN roots' = [roots EXCEPT ![1].frame = 0]
               ELSE roots' = roots
            /\ triggered' = triggered + ev_old + ev_new
            /\ ev_old' = 0
            /\ ev_new' = 0
            /\ UNCHANGED <<state, next_state, pressed, just_pressed, delta,
                           phase, fatal, frames, prev_state, edge_state, jumps,
                           sent>>

update_animation ==
    /\ Runs("update_animation")
    /\ roots' = [i \in DOMAIN roots |-> AnimStep(roots[i], delta)]
    /\ UNCHANGED <<state, next_state, pressed, just_pressed, ev_old, ev_new,
                   delta, phase, fatal, frames, prev_state, edge_state, jumps,
                   sent, triggered>>

scroll_backgrounds ==
    /\ Runs("scroll_backgrounds")
    /\ roots' = [i \in DOMAIN roots |->
                    [roots[i] EXCEPT !.bg = BackgroundStep(roots[i].bg, delta)]]
    /\ UNCHANGED <<state, next_state, pressed, just_pressed, ev_old, ev_new,
                   delta, phase, fatal, frames, prev_state, edge_state, jumps,
                   sent, triggered>>

scroll_pipes ==
    /\ Runs("scroll_pipes")
    /\ \E h \in [DOMAIN roots -> [1..4 -> random_pipe_height]] :
        /\ \A i \in DOMAIN roots : \A k \in 1..4 :
              Recycled(roots[i].obs[k], delta) \/ h[i][k] = roots[i].obs[k].y
        /\ roots' = [i \in DOMAIN roots |->
              [roots[i] EXCEPT !.obs = [k \in 1..4 |->
                  PipeStep(roots[i].obs[k], delta, h[i][k])]]]
    /\ UNCHANGED <<state, next_state, pressed, just_pressed, ev_old, ev_new,
                   delta, phase, fatal, frames, prev_state, edge_state, jumps,
                   sent, triggered>>

crash_and_die ==
    /\ Runs("crash_and_die")
    /\ IF ~Single THEN Panic
       ELSE /\ IF Killed(roots[1])
               THEN /\ next_state' = CrashTarget
                    /\ roots' = [roots EXCEPT ![1].velocity = JUMP_VELOCITY * 2]
               ELSE UNCHANGED <<next_state, roots>>
            /\ UNCHANGED <<state, pressed, just_pressed, ev_old, ev_new, delta,
                           phase, fatal, frames, prev_state, edge_state, jumps,
                           sent, triggered>>

\* PostUpdate: every Update system of the frame has run
propagate_transforms ==
    /\ phase = "update"
    /\ ~fatal
    /\ ran = Scheduled(state)
    /\ roots' = [i \in DOMAIN roots |-> Propagate(roots[i])]
    /\ phase' = "idle"
    /\ ran' = {}
    /\ delta' = 0
    /\ UNCHANGED <<state, next_state, pressed, just_pressed, ev_old, ev_new,
                   fatal, frames, prev_state, edge_state, jumps, sent,
                   triggered>>

Next ==
    \/ frame_begin
    \/ start_game
    \/ restart_game
    \/ input
    \/ apply_gravity
    \/ apply_rotation
    \/ trigger_jump_animation
    \/ update_animation
    \/ scroll_backgrounds
    \/ scroll_pipes
    \/ crash_and_die
    \/ propagate_transforms

Spec == Init /\ [][Next]_vars

-----------------------------------------------------------------------------
(* A Playing frame in the middle of a run: the obstacles have scrolled by     *)
(* `scroll`, the player is at height y with the flap animation finished, and  *)
(* the transforms of the previous frame have been propagated.                 *)

\* heights the player can have at the start of the frame, in 1/100 unit
PlayYs == {0 - 12900, 0 - 12800, 0 - 6000, 0, 6000, 12800, 12900}

\* distances the obstacles have scrolled, in 1/100 unit: the first obstacle
\* is at x = 20, 19 and 4
PlayScrolls == {12400, 12500, 14000}

MidRoot(y, scroll, h) ==
    LET r == NewRoot([i \in 1..4 |-> h])
    IN  Propagate([r EXCEPT
            !.y = y,
            !.t = 100,
            !.obs = [i \in 1..4 |-> [r.obs[i] EXCEPT !.x = r.obs[i].x - scroll]]])

InitPlay ==
    /\ state = "Playing"
    /\ next_state = "None"
    /\ \E y \in PlayYs, scroll \in PlayScrolls, h \in random_pipe_height :
           roots = << MidRoot(y, scroll, h) >>
    /\ pressed = FALSE
    /\ just_pressed = FALSE
    /\ ev_old = 0
    /\ ev_new = 0
    /\ delta = 0
    /\ phase = "idle"
    /\ ran = {}
    /\ fatal = FALSE
    /\ frames = MaxFrames - 1
    /\ prev_state = "Playing"
    /\ edge_state = "None"
    /\ jumps = 0
    /\ sent = 0
    /\ triggered = 0

NextPlay ==
    \/ frame_begin
    \/ input
    \/ apply_gravity
    \/ apply_rotation
    \/ trigger_jump_animation
    \/ update_animation
    \/ scroll_backgrounds
    \/ scroll_pipes
    \/ crash_and_die
    \/ propagate_transforms

SpecPlay == InitPlay /\ [][NextPlay]_vars

-----------------------------------------------------------------------------
(* Vocabulary of the properties *)

\* the state the game is in or is about to enter
GameState == IF next_state # "None" THEN next_state ELSE state

\* system s runs in this step
RanNow(s) == s \in ran' /\ s \notin ran

Abs(n) == IF n < 0 THEN 0 - n ELSE n

\* the kill conditions in the words of the specification: the raw height is
\* outside [-128, 128], or the box of half-extents (6, 4) around (0, y)
\* overlaps, edges included, the box of half-extents (13, 80) around a pipe's
\* world position
KillCondition(r) ==
    \/ r.y < 0 - 12800
    \/ r.y > 12800
    \/ \E i \in 1..4, p \in 1..2 :
          /\ Abs(r.obs[i].pipes[p][1]) <= 1300 + 600
          /\ Abs(r.obs[i].pipes[p][2] - r.y) <= 8000 + 400

\* what the scroller moves
Scenery(r) == <<r.bg, [i \in 1..4 |-> <<r.obs[i].x, r.obs[i].y>>]>>

-----------------------------------------------------------------------------
(* C1 *)

\* C1: the game starts in MainMenu, and the state the game is in (or is about
\* to enter) changes only MainMenu -> Playing on a press edge, Playing ->
\* GameOver on a kill, GameOver -> MainMenu on a press edge; State<AppState>
\* itself changes only to the state that was requested; a frame without a
\* press edge and without a kill ends with no transition requested.
C1_StateMachine ==
    /\ state = "MainMenu"
    /\ [][ /\ \/ GameState' = GameState
              \/ GameState = "MainMenu" /\ GameState' = "Playing" /\ just_pressed
              \/ /\ GameState = "Playing" /\ GameState' = "GameOver"
                 /\ KillCondition(roots[1])
              \/ GameState = "GameOver" /\ GameState' = "MainMenu" /\ just_pressed
           /\ state' # state => state' = next_state
           /\ (phase' = "idle" /\ next_state' # "None" /\ ~just_pressed)
                 => next_state' = "GameOver" ]_vars

\* C1 witness: a run went MainMenu -> Playing -> GameOver and a press has
\* requested MainMenu again
C1_Witness == state = "GameOver" /\ next_state = "MainMenu"

-----------------------------------------------------------------------------
(* C2 *)

\* C2: when crash_and_die runs with the player's raw height outside
\* [-128, 128] or with the player's box overlapping a pipe's world-space box,
\* it requests GameOver and sets the velocity to 400 and changes nothing else
\* of the world; otherwise it changes neither the requested state nor the
\* world.
C2_CrashCheck ==
    [][ (RanNow("crash_and_die") /\ Len(roots) = 1) =>
          IF KillCondition(roots[1])
          THEN /\ next_state' = "GameOver"
               /\ roots' = << [roots[1] EXCEPT !.velocity = 400 * 10] >>
          ELSE /\ next_state' = next_state
               /\ roots' = roots ]_vars

\* C2 witness: the check has killed a player whose height is inside the
\* vertical bounds, that is, on a pipe
C2_Witness ==
    /\ "crash_and_die" \in ran
    /\ "apply_gravity" \notin ran
    /\ next_state = "GameOver"
    /\ roots[1].y >= 0 - 12800
    /\ roots[1].y <= 12800
    /\ roots[1].velocity = 400 * 10

\* the check has run on a player at exactly 128 and has not killed
C2_WitnessEdge ==
    /\ "crash_and_die" \in ran
    /\ "apply_gravity" \notin ran
    /\ next_state = "None"
    /\ roots[1].y = 12800

-----------------------------------------------------------------------------
(* C3 *)

\* C3 as stated: at the end of every frame of a press, whatever the state of
\* its edge frame, the press has assigned the jump impulse exactly once and
\* emitted exactly one jump event.
C3_OneImpulseInAnyState ==
    (phase = "idle" /\ pressed) => (jumps = 1 /\ sent = 1)

\* C3 amended: a press whose edge frame is a MainMenu or Playing frame assigns
\* the impulse exactly once and emits exactly one event, a press whose edge
\* frame is a GameOver frame assigns none and emits none; in the frames after
\* the edge frame in which the button is still held no impulse is assigned,
\* no event is emitted, the systems reading the button change nothing, and the
\* game state changes only by a kill.
C3_EdgeOnly ==
    /\ []( (phase = "idle" /\ pressed) =>
             /\ jumps = sent
             /\ jumps = IF edge_state \in {"MainMenu", "Playing"} THEN 1 ELSE 0 )
    /\ [][ (phase = "update" /\ pressed /\ ~just_pressed) =>
             /\ jumps' = jumps
             /\ sent' = sent
             /\ ev_new' <= ev_new
             /\ GameState' # GameState => RanNow("crash_and_die")
             /\ (RanNow("input") \/ RanNow("start_game") \/ RanNow("restart_game"))
                   => (roots' = roots /\ next_state' = next_state) ]_vars

\* C3 witness: a frame in which the button was still held has completed,
\* after an edge frame that assigned the impulse
C3_Witness ==
    /\ phase = "idle"
    /\ pressed
    /\ ~just_pressed
    /\ jumps = 1
    /\ "Playing" \in {state, prev_state}

-----------------------------------------------------------------------------
(* C4 *)

\* C4: start_game on a press edge requests Playing, sets the velocity to 200
\* and sends one jump event; every first Playing frame ends with that event
\* read by trigger_jump_animation, which sets the frame index to 0 when it
\* reads an event.
C4_StartAndJump ==
    /\ [][ (RanNow("start_game") /\ just_pressed /\ ~fatal') =>
             /\ next_state' = "Playing"
             /\ roots'[1].velocity = 200 * 10
             /\ ev_new' = ev_new + 1 ]_vars
    /\ [][ (RanNow("trigger_jump_animation") /\ ev_old + ev_new > 0 /\ ~fatal') =>
             /\ roots'[1].frame = 0
             /\ triggered' > 0 ]_vars
    /\ []( (phase = "idle" /\ state = "Playing" /\ prev_state = "MainMenu") =>
             (triggered = 1 /\ ev_old = 0 /\ ev_new = 0) )

\* C4 witness: the first Playing frame has completed with the event read
C4_Witness ==
    /\ phase = "idle"
    /\ state = "Playing"
    /\ prev_state = "MainMenu"
    /\ triggered = 1

-----------------------------------------------------------------------------
(* C5 *)

\* C5: one physics step with elapsed time dt takes velocity v to
\* max(v - 982 dt, -400) and y to y + (new velocity) dt, without clamping y;
\* the velocity is never below -400.
C5_Physics ==
    /\ [][ RanNow("apply_gravity") =>
             \A i \in DOMAIN roots :
                LET v  == roots[i].velocity - 982 * delta
                    nv == IF v < 0 - 4000 THEN 0 - 4000 ELSE v
                IN  /\ roots'[i].velocity = nv
                    /\ roots'[i].y = roots[i].y + nv * delta ]_vars
    /\ [](\A i \in DOMAIN roots : roots[i].velocity >= 0 - 4000)

\* C5 witness: a physics step has clamped the velocity and moved the player
\* below the kill bound
C5_Witness ==
    /\ "apply_gravity" \in ran
    /\ roots[1].velocity = 0 - 4000
    /\ roots[1].y < 0 - 12800

-----------------------------------------------------------------------------
(* C6 *)

\* C6: there are exactly 4 obstacle groups, each with a gap offset in
\* [48, 154], and their x positions are pairwise distinct, differ by
\* multiples of 160 and fall into 4 different slots of the ring of length 640.
C6_Ring ==
    /\ Len(roots) = 1
    /\ DOMAIN roots[1].obs = 1..4
    /\ \A i \in 1..4 :
          roots[1].obs[i].y >= 4800 /\ roots[1].obs[i].y <= 15400
    /\ \A i, j \in 1..4 :
          i # j =>
            /\ roots[1].obs[i].x # roots[1].obs[j].x
            /\ (roots[1].obs[i].x - roots[1].obs[j].x) % 16000 = 0
            /\ (roots[1].obs[i].x - roots[1].obs[j].x) % 64000 # 0

\* C6 witness: the first group has been recycled to the right of the place
\* it was created at, after the others have scrolled
C6_Witness ==
    /\ roots[1].obs[1].x > 14400
    /\ roots[1].obs[2].x < 30400

-----------------------------------------------------------------------------
(* C7 *)

\* the world create_world builds, up to the gap offsets
FreshWorld(rs) ==
    /\ Len(rs) = 1
    /\ rs[1].y = 0
    /\ rs[1].velocity = 0
    /\ rs[1].frame = 2
    /\ rs[1].frame = Len(bird_frames) - 1
    /\ rs[1].repeat = FALSE
    /\ rs[1].t = 0
    /\ rs[1].index = 1
    /\ rs[1].bg = 0
    /\ rs[1].bg_child = 14300
    /\ DOMAIN rs[1].obs = 1..4
    /\ \A i \in 1..4 :
          /\ rs[1].obs[i].x = (i - 1) * 16000 + 14400
          /\ rs[1].obs[i].y >= 4800
          /\ rs[1].obs[i].y <= 15400

\* C7: the world of the first frame and the world after every entry to
\* MainMenu is the freshly built one: one player at (0, 0) with velocity 0 on
\* the last animation frame, the background at 0 with its second tile at 143,
\* 4 groups at i * 160 + 144 with offsets in [48, 154], and nothing else.
C7_Rebuild ==
    /\ FreshWorld(roots)
    /\ [][ (state # "MainMenu" /\ state' = "MainMenu") => FreshWorld(roots') ]_vars

\* C7 witness: MainMenu has been entered again from GameOver
C7_Witness ==
    /\ state = "MainMenu"
    /\ prev_state = "GameOver"
    /\ phase = "update"

-----------------------------------------------------------------------------
(* C8 *)

\* C8 as stated: in a Playing frame input runs before physics, animation,
\* scroll and collision, and the collision check runs after physics and
\* scroll.
C8_FixedOrder ==
    state = "Playing" =>
      /\ (ran \cap {"apply_gravity", "update_animation", "trigger_jump_animation",
                    "scroll_backgrounds", "scroll_pipes", "crash_and_die"} # {})
            => "input" \in ran
      /\ "crash_and_die" \in ran
            => {"apply_gravity", "scroll_backgrounds", "scroll_pipes"} \subseteq ran

-----------------------------------------------------------------------------
(* C9 *)

\* C9: no system panics, and whenever Update systems run there is exactly
\* one player.
C9_OnePlayer ==
    /\ ~fatal
    /\ phase = "update" => Len(roots) = 1

\* C9 witness: start_game has run on the rebuilt world in the frame in which
\* MainMenu was entered again
C9_Witness ==
    /\ state = "MainMenu"
    /\ prev_state = "GameOver"
    /\ "start_game" \in ran

-----------------------------------------------------------------------------
(* C10 *)

\* C10 as stated: from the kill until the next rebuild, no obstacle group's x
\* or gap offset and no background x changes.
C10_FrozenFromKill ==
    [][ (GameState = "GameOver" /\ GameState' = "GameOver") =>
            Scenery(roots'[1]) = Scenery(roots[1]) ]_vars

\* what holds of the code: the check itself leaves the scenery alone, and no
\* frame in state GameOver changes it
C10_FrozenInGameOver ==
    [][ (RanNow("crash_and_die") \/ (state = "GameOver" /\ state' = "GameOver")) =>
            Scenery(roots'[1]) = Scenery(roots[1]) ]_vars

-----------------------------------------------------------------------------
(* A Playing frame in the middle of a run in which the scroller is about to   *)
(* wrap: the background is at bg and the obstacles have scrolled by `scroll`. *)

\* background positions at the start of the frame, in 1/100 unit
ScrollBgs == {0, 0 - 7000, 0 - 13300, 0 - 14000, 0 - 14300}

\* distances the obstacles have scrolled, in 1/100 unit: the first obstacle
\* is at x = -278, -280 and -288
ScrollScrolls == {42200, 42400, 43200}

InitScroll ==
    /\ state = "Playing"
    /\ next_state = "None"
    /\ \E bg \in ScrollBgs, scroll \in ScrollScrolls, h \in random_pipe_height :
           roots = << [MidRoot(0, scroll, h) EXCEPT !.bg = bg] >>
    /\ pressed = FALSE
    /\ just_pressed = FALSE
    /\ ev_old = 0
    /\ ev_new = 0
    /\ delta = 0
    /\ phase = "idle"
    /\ ran = {}
    /\ fatal = FALSE
    /\ frames = MaxFrames - 1
    /\ prev_state = "Playing"
    /\ edge_state = "None"
    /\ jumps = 0
    /\ sent = 0
    /\ triggered = 0

SpecScroll == InitScroll /\ [][NextPlay]_vars

-----------------------------------------------------------------------------
(* C11 *)

\* C11: a scroll tick takes the background's x to x - 100 dt and, if that is
\* below -143, adds exactly 143; a tick of at most 143 units keeps an x that
\* is in [-143, 0] in [-143, 0], and the background is created at 0.
C11_BackgroundWrap ==
    [][ (RanNow("scroll_backgrounds") /\ Len(roots) = 1) =>
          LET x  == roots[1].bg
              nx == x - 1000 * delta
          IN  /\ roots'[1].bg = IF nx < 0 - 14300 THEN nx + 14300 ELSE nx
              /\ (1000 * delta <= 14300 /\ x >= 0 - 14300 /\ x <= 0)
                    => (roots'[1].bg >= 0 - 14300 /\ roots'[1].bg <= 0) ]_vars

\* C11 witness: a tick of 10 units has wrapped the background from -140 to -7
C11_Witness ==
    /\ "scroll_backgrounds" \in ran
    /\ delta = 1
    /\ roots[1].bg = 0 - 700

-----------------------------------------------------------------------------
(* A Playing frame in the middle of a run, for the animation: the player's    *)
(* animation is in one of the states a frame can start in, and a jump event   *)
(* of the previous frame may still be unread.                                 *)

\* largest elapsed time of one animation step in the algebraic properties,
\* in 1/10 s
AnimMaxDT == 7

\* <<frame, t, atlas index>> at the start of a frame: update_animation leaves
\* t = 1 only on the last frame, trigger_jump_animation then sets frame 0 and
\* leaves t and the atlas index as they are
AnimStates ==
    { <<0, 50, 3>>, <<1, 0, 2>>, <<1, 50, 2>>, <<2, 0, 1>>, <<2, 50, 1>>,
      <<2, 100, 1>>, <<0, 50, 1>>, <<0, 100, 1>> }

InitAnim ==
    /\ state = "Playing"
    /\ next_state = "None"
    /\ \E a \in AnimStates, h \in random_pipe_height :
           roots = << [MidRoot(0, 0, h) EXCEPT
                          !.frame = a[1], !.t = a[2], !.index = a[3]] >>
    /\ pressed = FALSE
    /\ just_pressed = FALSE
    /\ ev_old \in {0, 1}
    /\ ev_new = 0
    /\ delta = 0
    /\ phase = "idle"
    /\ ran = {}
    /\ fatal = FALSE
    /\ frames = MaxFrames - 1
    /\ prev_state = "Playing"
    /\ edge_state = "None"
    /\ jumps = 0
    /\ sent = 0
    /\ triggered = 0

SpecAnim == InitAnim /\ [][NextPlay]_vars

\* the animation is frozen on the last frame
Clamped(r) == r.frame = 2 /\ r.t = 100

-----------------------------------------------------------------------------
(* C12 *)

\* C12: the player's animation does not repeat; animation steps that start at
\* frame 0 / t = 0 and whose elapsed times add up to at least 0.6 s, the sum
\* of the three durations, end on the last frame with t = 1 and sprite index
\* 1; and an animation step in that state changes neither frame, t nor the
\* displayed index, whatever the elapsed time.
C12_ClampAtEnd ==
    /\ [](Len(roots) = 1 =>
            LET start == [roots[1] EXCEPT !.frame = 0, !.t = 0]
            IN  /\ ~roots[1].repeat
                /\ \A d1, d2 \in 0..AnimMaxDT :
                      d1 + d2 >= 6 =>
                          LET r == AnimStep(AnimStep(start, d1), d2)
                          IN  Clamped(r) /\ r.index = 1
                /\ \A d \in 0..AnimMaxDT :
                      Clamped(roots[1]) =>
                          LET r == AnimStep(roots[1], d)
                          IN  Clamped(r) /\ r.index = 1)
    /\ [][ (RanNow("update_animation") /\ Len(roots) = 1 /\ Clamped(roots[1]))
             => /\ Clamped(roots'[1])
                /\ roots'[1].index = roots[1].index
                /\ roots'[1].index = 1 ]_vars

\* C12 witness: the jump event restarted the animation and a step of 4.6 s
\* then froze it on the last frame
C12_Witness ==
    /\ triggered = 1
    /\ "update_animation" \in ran
    /\ delta = 46
    /\ Clamped(roots[1])
    /\ roots[1].index = 1

-----------------------------------------------------------------------------
(* C13 *)

\* C13: when trigger_jump_animation consumes a jump event, whatever the
\* animation state before, the frame index becomes 0, the repeat flag stays,
\* and the animation steps that follow show frame 0 during the first 0.2 s,
\* frame 1 during the next 0.2 s, frame 2 after that, and freeze on the last
\* frame once 0.6 s have elapsed.
C13_RestartsFlap ==
    [][ (RanNow("trigger_jump_animation") /\ ev_old + ev_new > 0
            /\ Len(roots) = 1)
          => /\ roots'[1].frame = 0
             /\ roots'[1].repeat = roots[1].repeat
             /\ \A d \in 0..AnimMaxDT :
                   LET r == AnimStep(roots'[1], d)
                   IN  /\ r.frame = IF d < 2 THEN 0 ELSE IF d < 4 THEN 1 ELSE 2
                       /\ r.index = bird_frames[r.frame + 1].index
                       /\ Clamped(r) <=> d >= 6 ]_vars

-----------------------------------------------------------------------------
(* C14 *)

\* the player's position, velocity and animation
PlayerPart(r) == <<r.y, r.velocity, r.frame, r.t, r.index, r.repeat>>

\* C14: apply_gravity and update_animation run in every Playing and every
\* GameOver frame and in no MainMenu frame; input, trigger_jump_animation,
\* the two scrollers, crash_and_die and apply_rotation run in every Playing
\* frame and in no other; and as long as the state is MainMenu and no press
\* has requested Playing, the player and the scenery keep the values
\* create_world gave them.
C14_Gating ==
    /\ [][ /\ (RanNow("apply_gravity") \/ RanNow("update_animation"))
                => state \in {"Playing", "GameOver"}
           /\ (\E s \in {"input", "trigger_jump_animation",
                         "scroll_backgrounds", "scroll_pipes",
                         "crash_and_die", "apply_rotation"} : RanNow(s))
                => state = "Playing"
           /\ (phase = "update" /\ phase' = "idle")
                => /\ state \in {"Playing", "GameOver"}
                      => {"apply_gravity", "update_animation"} \subseteq ran
                   /\ state = "Playing"
                      => {"input", "trigger_jump_animation",
                          "scroll_backgrounds", "scroll_pipes",
                          "crash_and_die", "apply_rotation"} \subseteq ran
           /\ (state = "MainMenu" /\ state' = "MainMenu"
                   /\ next_state' = "None")
                => /\ PlayerPart(roots'[1]) = PlayerPart(roots[1])
                   /\ Scenery(roots'[1]) = Scenery(roots[1]) ]_vars
    /\ []((state = "MainMenu" /\ next_state = "None") => FreshWorld(roots))

\* C14 witness: a third MainMenu frame has ended without a press
C14_Witness ==
    /\ state = "MainMenu"
    /\ prev_state = "MainMenu"
    /\ next_state = "None"
    /\ frames = 3
    /\ phase = "idle"
    /\ FreshWorld(roots)

-----------------------------------------------------------------------------
(* C15 *)

\* C15: a scroll tick takes each obstacle's x to x - 100 dt; an obstacle
\* whose result is below -288 gets exactly 640 added and a gap offset in
\* [48, 154], an obstacle whose result is not below -288 keeps its gap
\* offset; and an obstacle's gap offset changes in no other step (the
\* obstacles of a rebuilt world are new ones).
C15_Recycle ==
    [][ (Len(roots) = 1 /\ Len(roots') = 1) =>
          \A k \in 1..4 :
             LET o  == roots[1].obs[k]
                 on == roots'[1].obs[k]
                 nx == o.x - 1000 * delta
             IN  /\ RanNow("scroll_pipes") =>
                       IF nx < 0 - 28800
                       THEN on.x = nx + 64000 /\ on.y \in 4800..15400
                       ELSE on.x = nx /\ on.y = o.y
                 /\ on.y # o.y =>
                       \/ RanNow("scroll_pipes") /\ nx < 0 - 28800
                       \/ state # "MainMenu" /\ state' = "MainMenu" ]_vars

\* C15 witness: a tick of 10 units has recycled the first obstacle from
\* x = -280 to x = 350 with a gap offset that differs from its neighbour's,
\* and the second obstacle has kept its offset
C15_Witness ==
    /\ "scroll_pipes" \in ran
    /\ delta = 1
    /\ roots[1].obs[1].x = 35000
    /\ roots[1].obs[2].x = 0 - 13000
    /\ roots[1].obs[1].y # roots[1].obs[2].y

-----------------------------------------------------------------------------
(* C16 *)

\* the closed intervals [a1, a2] and [b1, b2] overlap
Overlap(a1, a2, b1, b2) == a1 <= b2 /\ b1 <= a2

\* the player's box and the box of half-extents (13, 80) around (px, py)
\* overlap in x and in y
BoxesOverlap(r, px, py) ==
    /\ Overlap(0 - 600, 600, px - 1300, px + 1300)
    /\ Overlap(r.y - 400, r.y + 400, py - 8000, py + 8000)

\* C16 as stated: when crash_and_die runs with the player inside the vertical
\* bounds, it reports a hit exactly when the player's box overlaps, in x and
\* in y, the box around some obstacle's position (top pipe) or around that
\* position lowered by 202 (bottom pipe).
C16_PipeCheck ==
    [][ (RanNow("crash_and_die") /\ Len(roots) = 1
            /\ roots[1].y >= 0 - 12800 /\ roots[1].y <= 12800)
          => (next_state' = "GameOver"
                <=> \E i \in 1..4 :
                       \/ BoxesOverlap(roots[1], roots[1].obs[i].x,
                                       roots[1].obs[i].y)
                       \/ BoxesOverlap(roots[1], roots[1].obs[i].x,
                                       roots[1].obs[i].y - 20200)) ]_vars

\* the same with the pipes' positions as of the last transform propagation,
\* which are the obstacle's position and that position lowered by 202 at the
\* time of the propagation
C16_AtPropagatedPosition ==
    [][ /\ (RanNow("crash_and_die") /\ Len(roots) = 1
               /\ roots[1].y >= 0 - 12800 /\ roots[1].y <= 12800)
             => (next_state' = "GameOver"
                   <=> \E i \in 1..4, p \in 1..2 :
                          BoxesOverlap(roots[1], roots[1].obs[i].pipes[p][1],
                                       roots[1].obs[i].pipes[p][2]))
        /\ (phase' = "idle" /\ Len(roots') = 1)
             => \A i \in 1..4 :
                   LET o == roots'[1].obs[i]
                   IN  /\ o.pipes[1] = <<o.x, o.y>>
                       /\ o.pipes[2] = <<o.x, o.y - 20200>> ]_vars

-----------------------------------------------------------------------------
(* C17 *)

\* C17: for the player's (non-repeating) animation in any state and any two
\* elapsed times, one animation step over their sum ends with the same frame,
\* t and displayed index as a step over the first followed by a step over the
\* second; and the loop of one step moves on from at most as many frames as
\* the list has.
C17_CarryOver ==
    Len(roots) = 1 =>
        \A d1, d2 \in 0..AnimMaxDT :
            LET one == AnimStep(roots[1], d1 + d2)
                two == AnimStep(AnimStep(roots[1], d1), d2)
            IN  /\ ~roots[1].repeat
                /\ one.frame = two.frame
                /\ one.t = two.t
                /\ one.index = two.index
                /\ AnimAdvances(roots[1], d1 + d2) <= 3

\* C17 witness: a step of 0.1 s has used up the second half of frame 0 and
\* moved on to frame 1
C17_Witness ==
    /\ "update_animation" \in ran
    /\ "trigger_jump_animation" \notin ran
    /\ delta = 1
    /\ roots[1].frame = 1
    /\ roots[1].t = 0
    /\ roots[1].index = 2
    /\ AnimAdvances([roots[1] EXCEPT !.frame = 0, !.t = 50], 1) = 1

-----------------------------------------------------------------------------
(* Playing without input: from a Playing state at a frame boundary the button *)
(* stays up, frames follow one another for as long as the state is Playing,   *)
(* and every scheduled system runs in every frame.                            *)

\* the player's height and velocity at the start, in 1/100 unit and
\* 1/10 unit/s: at rest and just after a jump
FallPlayers == { <<0, 0>>, <<0, 2000>>, <<12800, 0>>, <<0 - 5000, 2000>> }

\* distances the obstacles have scrolled: none, and the first obstacle at
\* x = 20
FallScrolls == {0, 12400}

InitFall ==
    /\ state = "Playing"
    /\ next_state = "None"
    /\ \E pl \in FallPlayers, scroll \in FallScrolls, h \in random_pipe_height :
           roots = << [MidRoot(pl[1], scroll, h) EXCEPT !.velocity = pl[2]] >>
    /\ pressed = FALSE
    /\ just_pressed = FALSE
    /\ ev_old = 0
    /\ ev_new = 0
    /\ delta = 0
    /\ phase = "idle"
    /\ ran = {}
    /\ fatal = FALSE
    /\ frames = 1
    /\ prev_state = "Playing"
    /\ edge_state = "None"
    /\ jumps = 0
    /\ sent = 0
    /\ triggered = 0

\* a frame with the button up, while the state is Playing; the run is not
\* limited to MaxFrames frames
fall_frame ==
    /\ state = "Playing"
    /\ FrameStart({FALSE}, frames)

NextFall ==
    \/ fall_frame
    \/ restart_game
    \/ input
    \/ apply_gravity
    \/ apply_rotation
    \/ trigger_jump_animation
    \/ update_animation
    \/ scroll_backgrounds
    \/ scroll_pipes
    \/ crash_and_die
    \/ propagate_transforms

\* the app runner starts frame after frame and a frame runs every system its
\* run condition admits
SpecFall == InitFall /\ [][NextFall]_vars /\ WF_vars(NextFall)

-----------------------------------------------------------------------------
(* C18 *)

\* C18: from every Playing state, with no press and every frame's elapsed
\* time at least 0.1 s, the state eventually is GameOver.
C18_EventuallyGameOver == (state = "Playing") ~> (state = "GameOver")

\* C18 witness: the state is GameOver after the player, never on a pipe, fell
\* below -128
C18_Witness ==
    /\ state = "GameOver"
    /\ prev_state = "Playing"
    /\ roots[1].y < 0 - 12800
    /\ ~HitsPipe(roots[1])

-----------------------------------------------------------------------------
(* C19 *)

\* C19 as stated: every obstacle's top pipe box reaches up to 128 or above
\* and its bottom pipe box down to -128 or below; and when crash_and_die has
\* run without killing, every obstacle whose pipe x-interval [x - 13, x + 13]
\* overlaps the player's [-6, 6] has the player strictly inside its gap,
\* g - 118 < y < g - 84.
C19_OnlyThroughGap ==
    [][ (RanNow("crash_and_die") /\ Len(roots) = 1 /\ next_state' = "None")
          => \A i \in 1..4 :
                LET o == roots'[1].obs[i]
                    y == roots'[1].y
                IN  /\ o.y + 8000 >= 12800
                    /\ o.y - 20200 - 8000 <= 0 - 12800
                    /\ Overlap(0 - 600, 600, o.x - 1300, o.x + 1300)
                         => (o.y - 11800 < y /\ y < o.y - 8400) ]_vars

\* the same with the obstacle's position as of the last transform
\* propagation, the one the check reads
C19_AtPropagatedPosition ==
    [][ (RanNow("crash_and_die") /\ Len(roots) = 1 /\ next_state' = "None")
          => \A i \in 1..4 :
                LET top == roots'[1].obs[i].pipes[1]
                    y   == roots'[1].y
                IN  /\ top[2] + 8000 >= 12800
                    /\ top[2] - 20200 - 8000 <= 0 - 12800
                    /\ Overlap(0 - 600, 600, top[1] - 1300, top[1] + 1300)
                         => (top[2] - 11800 < y /\ y < top[2] - 8400) ]_vars

====
